---- MODULE Spec2Model ----
(***************************************************************************)
(* Agora ticketing contracts: the event registry                           *)
(* (contracts/event_registry/src/lib.rs) and the ticket payment contract   *)
(* (contracts/ticket-payment2/src/lib.rs), as state machines over their    *)
(* persistent storage.  Every contract entry point is one action.  A call  *)
(* carries the set of addresses that signed the invocation (auth);         *)
(* require_auth of an address outside that set traps, and a trapped        *)
(* invocation leaves storage as it was.  The call made by the latest step   *)
(* (entry point, arguments, signers, result) is kept in the variable last.  *)
(***************************************************************************)
EXTENDS Integers, FiniteSets, Sequences, TLC

(* ------------------------------ bounds --------------------------------- *)

\* Ledger timestamps run over 0..MaxTime.
MaxTime == 1

\* The largest payment amount offered to process_payment.
MaxAmount == 2

\* The tokens the buyer u1 starts with; u2 starts with none.
MaxBalance == 2

(* --------------------------- program constants ------------------------- *)

\* 10000 basis points = 100%.
BasisPoints == 10000

\* The fee initialize stores when it is given 0.
DefaultFee == 500

(* ------------------------------ input sets ----------------------------- *)

Users == {"u1", "u2"}

\* env.current_contract_address() of the event registry.
RegistryAddr == "registry"

Addr == Users \cup {RegistryAddr}

NoAddr == "none"

EventIds == {"e1", "e2"}

\* An event id argument that is the empty string.
EmptyId == ""

NoEvent == "-"

\* u32 fee arguments: the default trigger, an ordinary fee, the largest
\* legal fee and the smallest illegal one.
FeeArgs == {0, 1, BasisPoints, BasisPoints + 1}

\* The address the ticket payment contract is given as platform wallet.
PlatformAddr == "platform"

\* The holders of the USDC token.
Holders == Users \cup {PlatformAddr}

\* format_payment_id's string, and a payment id no payment has.
PaymentId1 == "PAY-1234567890-1"
OtherPaymentId == "PAY-0"
PaymentIdArgs == {PaymentId1, OtherPaymentId}

NoPayment == "-"

HashArgs == {"h1", "h2"}

\* u32 fee arguments of the ticket payment contract: a half, and two values
\* above 100%.
PercentArgs == {BasisPoints \div 2, BasisPoints + 1, 2 * BasisPoints}

\* i128 amount arguments: negative, zero, the smallest and the largest.
AmountArgs == {-1, 0, 1, MaxAmount}

\* Option<T>: None is the empty sequence, Some(x) the sequence <<x>>.
None == <<>>
Some(x) == <<x>>

\* The sets of signers of an invocation.
Auths == SUBSET Users

\* Invocations signed by nobody or by one user.
SingleAuths == {{}} \cup {{u} : u \in Users}

VARIABLES
    initialized,      \* DataKey::Initialized of the registry
    admin,            \* DataKey::Admin
    platform_wallet,  \* DataKey::PlatformWallet
    platform_fee,     \* DataKey::PlatformFee
    events,           \* DataKey::Event(event_id) -> EventInfo
    tp_initialized,   \* ticket payment: DataKey::UsdcToken is set
    tp_fee_percent,   \* ticket payment: DataKey::PlatformFeePercent
    tp_wallet,        \* ticket payment: DataKey::PlatformWallet
    tp_counter,       \* ticket payment: DataKey::PaymentCounter
    payments,         \* ticket payment: DataKey::Payments, payment_id -> Payment
    balances,         \* the USDC token contract: address -> balance
    now,              \* env.ledger().timestamp()
    last              \* the latest call: operation, arguments, signers, result

regVars == <<initialized, admin, platform_wallet, platform_fee, events>>
tpVars == <<tp_initialized, tp_fee_percent, tp_wallet, tp_counter, payments, balances>>
vars == <<initialized, admin, platform_wallet, platform_fee, events,
          tp_initialized, tp_fee_percent, tp_wallet, tp_counter, payments,
          balances, now, last>>

\* The stored configuration of the registry.
config == <<initialized, admin, platform_wallet, platform_fee>>

(* ------------------------------ call records --------------------------- *)

\* op: entry point; event_id, addr, flag, fee, amount, payment_id, hash: its
\* arguments (unused ones at their defaults); auth: the signers; ret: "Ok" or
\* the error;
\* out_addr, out_num, out_id, out_pay: the value returned.
NoCall ==
    [op |-> "none", event_id |-> NoEvent, addr |-> NoAddr, flag |-> FALSE,
     fee |-> 0, amount |-> 0, payment_id |-> NoPayment, hash |-> "",
     auth |-> {}, ret |-> "Ok",
     out_addr |-> NoAddr, out_num |-> 0, out_id |-> NoPayment, out_pay |-> None]

Call(op, fields, auth, ret) ==
    [op |-> op, auth |-> auth, ret |-> ret] @@ fields @@ NoCall

\* The result of an invocation that trapped in require_auth.
AuthTrap == "AuthTrap"

\* The result of an invocation that ran into panic!.
Panic == "Panic"

(* ------------------- event registry: storage helpers ------------------- *)

is_initialized == initialized

get_admin == admin

get_platform_wallet == platform_wallet

get_platform_fee == platform_fee

event_exists(event_id) == event_id \in DOMAIN events

get_event(event_id) == events[event_id]

\* storage::store_event: the record is written under its own event_id.
put_event(event_info) ==
    [e \in DOMAIN events \cup {event_info.event_id} |->
        IF e = event_info.event_id THEN event_info ELSE events[e]]

validate_address(address) == address # RegistryAddr

(* ----------------------- event registry: entry points ------------------ *)

\* The fee argument stored as given, with no default for 0.
InitialFee_asGiven(platform_fee_percent) == platform_fee_percent

InitialFee(platform_fee_percent) ==
    IF platform_fee_percent = 0 THEN DefaultFee ELSE platform_fee_percent

\* initialize without the is_initialized guard.
initialize_unguarded(a, w, f, auth) ==
    LET args == [fee |-> f] IN
    /\ UNCHANGED <<events, tpVars, now>>
    /\ IF ~validate_address(a) \/ ~validate_address(w)
       THEN /\ last' = Call("initialize", args, auth, "InvalidAddress")
            /\ UNCHANGED config
       ELSE IF InitialFee(f) > BasisPoints
       THEN /\ last' = Call("initialize", args, auth, "InvalidFeePercent")
            /\ UNCHANGED config
       ELSE /\ admin' = a
            /\ platform_wallet' = w
            /\ platform_fee' = InitialFee(f)
            /\ initialized' = TRUE
            /\ last' = Call("initialize", args, auth, "Ok")

initialize(a, w, f, auth) ==
    LET args == [fee |-> f] IN
    /\ UNCHANGED <<events, tpVars, now>>
    /\ IF is_initialized
       THEN /\ last' = Call("initialize", args, auth, "AlreadyInitialized")
            /\ UNCHANGED config
       ELSE IF ~validate_address(a) \/ ~validate_address(w)
       THEN /\ last' = Call("initialize", args, auth, "InvalidAddress")
            /\ UNCHANGED config
       ELSE IF InitialFee(f) > BasisPoints
       THEN /\ last' = Call("initialize", args, auth, "InvalidFeePercent")
            /\ UNCHANGED config
       ELSE /\ admin' = a
            /\ platform_wallet' = w
            /\ platform_fee' = InitialFee(f)
            /\ initialized' = TRUE
            /\ last' = Call("initialize", args, auth, "Ok")

Initialize(As, Ws, Fs) == \E a \in As, w \in Ws, f \in Fs, auth \in {{}, Users} :
    initialize(a, w, f, auth)

\* The record register_event builds (lib.rs: EventInfo { .. }).
NewEventInfo(event_id, organizer_address, payment_address) ==
    [event_id |-> event_id,
     organizer_address |-> organizer_address,
     payment_address |-> payment_address,
     platform_fee_percent |-> get_platform_fee,
     is_active |-> TRUE,
     created_at |-> now]

\* register_event without the event_exists check.
register_event_overwriting(event_id, organizer_address, payment_address, auth) ==
    LET args == [event_id |-> event_id, addr |-> organizer_address] IN
    /\ UNCHANGED <<config, tpVars, now>>
    /\ IF ~is_initialized
       THEN /\ last' = Call("register_event", args, auth, "NotInitialized")
            /\ UNCHANGED events
       ELSE IF organizer_address \notin auth
       THEN /\ last' = Call("register_event", args, auth, AuthTrap)
            /\ UNCHANGED events
       ELSE /\ events' = put_event(NewEventInfo(event_id, organizer_address,
                                                payment_address))
            /\ last' = Call("register_event", args, auth, "Ok")

register_event(event_id, organizer_address, payment_address, auth) ==
    LET args == [event_id |-> event_id, addr |-> organizer_address] IN
    /\ UNCHANGED <<config, tpVars, now>>
    /\ IF ~is_initialized
       THEN /\ last' = Call("register_event", args, auth, "NotInitialized")
            /\ UNCHANGED events
       ELSE IF organizer_address \notin auth
       THEN /\ last' = Call("register_event", args, auth, AuthTrap)
            /\ UNCHANGED events
       ELSE IF event_exists(event_id)
       THEN /\ last' = Call("register_event", args, auth, "EventAlreadyExists")
            /\ UNCHANGED events
       ELSE /\ events' = put_event(NewEventInfo(event_id, organizer_address,
                                                payment_address))
            /\ last' = Call("register_event", args, auth, "Ok")

RegisterEvent(Es, Os, Ps) == \E e \in Es, o \in Os, p \in Ps, auth \in Auths :
    register_event(e, o, p, auth)

\* get_event_payment_info without the is_active check.
get_event_payment_info_anyStatus(event_id) ==
    LET auth == {} IN
    LET args == [event_id |-> event_id] IN
    /\ UNCHANGED <<regVars, tpVars, now>>
    /\ IF event_exists(event_id)
       THEN last' = Call("get_event_payment_info",
                         [event_id |-> event_id,
                          out_addr |-> get_event(event_id).payment_address,
                          out_num |-> get_event(event_id).platform_fee_percent],
                         auth, "Ok")
       ELSE last' = Call("get_event_payment_info", args, auth, "EventNotFound")

get_event_payment_info(event_id) ==
    LET auth == {} IN
    LET args == [event_id |-> event_id] IN
    /\ UNCHANGED <<regVars, tpVars, now>>
    /\ IF event_exists(event_id)
       THEN IF ~get_event(event_id).is_active
            THEN last' = Call("get_event_payment_info", args, auth, "EventInactive")
            ELSE last' = Call("get_event_payment_info",
                              [event_id |-> event_id,
                               out_addr |-> get_event(event_id).payment_address,
                               out_num |-> get_event(event_id).platform_fee_percent],
                              auth, "Ok")
       ELSE last' = Call("get_event_payment_info", args, auth, "EventNotFound")

GetEventPaymentInfo(Es) == \E e \in Es : get_event_payment_info(e)

\* update_event_status without the organizer's require_auth.
update_event_status_noAuth(event_id, is_active, auth) ==
    LET args == [event_id |-> event_id, flag |-> is_active] IN
    /\ UNCHANGED <<config, tpVars, now>>
    /\ IF event_exists(event_id)
       THEN /\ events' = put_event([get_event(event_id) EXCEPT
                                       !.is_active = is_active])
            /\ last' = Call("update_event_status", args, auth, "Ok")
       ELSE /\ last' = Call("update_event_status", args, auth, "EventNotFound")
            /\ UNCHANGED events

update_event_status(event_id, is_active, auth) ==
    LET args == [event_id |-> event_id, flag |-> is_active] IN
    /\ UNCHANGED <<config, tpVars, now>>
    /\ IF event_exists(event_id)
       THEN IF get_event(event_id).organizer_address \notin auth
            THEN /\ last' = Call("update_event_status", args, auth, AuthTrap)
                 /\ UNCHANGED events
            ELSE /\ events' = put_event([get_event(event_id) EXCEPT
                                            !.is_active = is_active])
                 /\ last' = Call("update_event_status", args, auth, "Ok")
       ELSE /\ last' = Call("update_event_status", args, auth, "EventNotFound")
            /\ UNCHANGED events

UpdateEventStatus(Es) == \E e \in Es, b \in BOOLEAN, auth \in Auths :
    update_event_status(e, b, auth)

\* The EventInfo values offered to the legacy store_event entry point.
EventInfos(Es, Os, Ps) ==
    [event_id : Es,
     organizer_address : Os,
     payment_address : Ps,
     platform_fee_percent : {0},
     is_active : BOOLEAN,
     created_at : {0}]

store_event(event_info, auth) ==
    /\ UNCHANGED <<config, tpVars, now>>
    /\ events' = put_event(event_info)
    /\ last' = Call("store_event",
                    [event_id |-> event_info.event_id], auth, "Ok")

StoreEvent(Es, Os, Ps) == \E info \in EventInfos(Es, Os, Ps), auth \in {{}, Users} :
    store_event(info, auth)

\* set_platform_fee without the upper bound on the fee.
set_platform_fee_unbounded(new_fee_percent, auth) ==
    LET args == [fee |-> new_fee_percent] IN
    /\ UNCHANGED <<events, tpVars, now>>
    /\ IF get_admin = NoAddr
       THEN /\ last' = Call("set_platform_fee", args, auth, "NotInitialized")
            /\ UNCHANGED config
       ELSE IF get_admin \notin auth
       THEN /\ last' = Call("set_platform_fee", args, auth, AuthTrap)
            /\ UNCHANGED config
       ELSE /\ platform_fee' = new_fee_percent
            /\ UNCHANGED <<initialized, admin, platform_wallet>>
            /\ last' = Call("set_platform_fee", args, auth, "Ok")

\* set_platform_fee without the administrator's require_auth.
set_platform_fee_noAuth(new_fee_percent, auth) ==
    LET args == [fee |-> new_fee_percent] IN
    /\ UNCHANGED <<events, tpVars, now>>
    /\ IF get_admin = NoAddr
       THEN /\ last' = Call("set_platform_fee", args, auth, "NotInitialized")
            /\ UNCHANGED config
       ELSE IF new_fee_percent > BasisPoints
       THEN /\ last' = Call("set_platform_fee", args, auth, "InvalidFeePercent")
            /\ UNCHANGED config
       ELSE /\ platform_fee' = new_fee_percent
            /\ UNCHANGED <<initialized, admin, platform_wallet>>
            /\ last' = Call("set_platform_fee", args, auth, "Ok")

set_platform_fee(new_fee_percent, auth) ==
    LET args == [fee |-> new_fee_percent] IN
    /\ UNCHANGED <<events, tpVars, now>>
    /\ IF get_admin = NoAddr
       THEN /\ last' = Call("set_platform_fee", args, auth, "NotInitialized")
            /\ UNCHANGED config
       ELSE IF get_admin \notin auth
       THEN /\ last' = Call("set_platform_fee", args, auth, AuthTrap)
            /\ UNCHANGED config
       ELSE IF new_fee_percent > BasisPoints
       THEN /\ last' = Call("set_platform_fee", args, auth, "InvalidFeePercent")
            /\ UNCHANGED config
       ELSE /\ platform_fee' = new_fee_percent
            /\ UNCHANGED <<initialized, admin, platform_wallet>>
            /\ last' = Call("set_platform_fee", args, auth, "Ok")

SetPlatformFee(Fs) == \E f \in Fs, auth \in Auths : set_platform_fee(f, auth)

GetPlatformFee ==
    /\ UNCHANGED <<regVars, tpVars, now>>
    /\ last' = Call("get_platform_fee", [out_num |-> get_platform_fee], {}, "Ok")

\* The ledger closes and the timestamp moves on; no call is in progress.
AdvanceLedger ==
    /\ now < MaxTime
    /\ now' = now + 1
    /\ last' = NoCall
    /\ UNCHANGED <<regVars, tpVars>>

(* ---------------------------- the USDC token ---------------------------- *)

\* TokenClient::balance.
balance(bal, id) == bal[id]

\* TokenClient::transfer of an amount the token accepts.
transfer(bal, from, to, amount) ==
    [h \in DOMAIN bal |->
        bal[h] - (IF h = from THEN amount ELSE 0) + (IF h = to THEN amount ELSE 0)]

\* The token traps on a negative amount and on an amount above the balance.
transfer_ok(bal, from, amount) == amount >= 0 /\ bal[from] >= amount

(* ----------------------- ticket payment: entry points ------------------- *)

\* Rust's / on signed integers rounds toward zero.
TruncDiv(a, b) == IF a >= 0 THEN a \div b ELSE -((-a) \div b)

tp_initialize(platform_fee_percent, wallet, auth) ==
    LET args == [fee |-> platform_fee_percent, addr |-> wallet] IN
    /\ UNCHANGED <<regVars, balances, now>>
    /\ IF tp_initialized
       THEN /\ last' = Call("tp_initialize", args, auth, Panic)
            /\ UNCHANGED <<tp_initialized, tp_fee_percent, tp_wallet, tp_counter,
                           payments>>
       ELSE /\ tp_initialized' = TRUE
            /\ tp_fee_percent' = platform_fee_percent
            /\ tp_wallet' = wallet
            /\ tp_counter' = 0
            /\ payments' = <<>>
            /\ last' = Call("tp_initialize", args, auth, "Ok")

TpInitialize == \E f \in PercentArgs, auth \in {{}, Users} :
    tp_initialize(f, PlatformAddr, auth)

format_payment_id(counter) == PaymentId1

platform_fee_of(amount, platform_fee_percent) ==
    TruncDiv(amount * platform_fee_percent, BasisPoints)

\* The record process_payment builds (lib.rs: Payment { .. }).
NewPayment(payment_id, event_id, buyer, amount, fee, organizer_amount) ==
    [payment_id |-> payment_id,
     event_id |-> event_id,
     buyer |-> buyer,
     amount |-> amount,
     platform_fee |-> fee,
     organizer_amount |-> organizer_amount,
     status |-> "Pending",
     created_at |-> now,
     confirmed_at |-> None,
     transaction_hash |-> None]

\* Map::set.
map_set(m, k, v) == [x \in DOMAIN m \cup {k} |-> IF x = k THEN v ELSE m[x]]

\* The amount check with 0 let through.
invalid_amount_negativeOnly(amount) == amount < 0

\* "Validate amount".
invalid_amount(amount) == amount <= 0

process_payment(buyer, event_id, amount, auth) ==
    LET args == [addr |-> buyer, event_id |-> event_id, amount |-> amount]
        fail(err) ==
            /\ last' = Call("process_payment", args, auth, err)
            /\ UNCHANGED <<tp_counter, payments, balances>>
        fee == platform_fee_of(amount, tp_fee_percent)
        organizer_amount == amount - fee
        payment_id == format_payment_id(tp_counter)
        organizer_address == tp_wallet
        bal1 == transfer(balances, buyer, tp_wallet, fee)
        bal2 == transfer(bal1, buyer, organizer_address, organizer_amount)
    IN
    /\ UNCHANGED <<regVars, tp_initialized, tp_fee_percent, tp_wallet, now>>
    /\ IF buyer \notin auth THEN fail(AuthTrap)
       ELSE IF invalid_amount(amount) THEN fail("InvalidAmount")
       ELSE IF ~tp_initialized THEN fail("EventRegistryError")
       ELSE IF event_id = EmptyId THEN fail("InvalidEventId")
       ELSE IF organizer_amount < 0 THEN fail("Overflow")
       ELSE IF balance(balances, buyer) < amount THEN fail("InsufficientBalance")
       ELSE IF ~transfer_ok(balances, buyer, fee)
               \/ ~transfer_ok(bal1, buyer, organizer_amount) THEN fail(Panic)
       ELSE /\ tp_counter' = tp_counter + 1
            /\ balances' = bal2
            /\ payments' = map_set(payments, payment_id,
                                   NewPayment(payment_id, event_id, buyer, amount,
                                              fee, organizer_amount))
            /\ last' = Call("process_payment", args @@ [out_id |-> payment_id],
                            auth, "Ok")

ProcessPayment ==
    \E buyer \in Users, e \in {"e1", "e2", EmptyId}, amount \in AmountArgs,
       auth \in SingleAuths :
        process_payment(buyer, e, amount, auth)

\* confirm_payment that records no confirmation time.
confirm_payment_noTimestamp(payment_id, transaction_hash, auth) ==
    LET args == [payment_id |-> payment_id, hash |-> transaction_hash] IN
    /\ UNCHANGED <<regVars, tp_initialized, tp_fee_percent, tp_wallet, tp_counter,
                   balances, now>>
    /\ IF payment_id \notin DOMAIN payments
       THEN /\ last' = Call("confirm_payment", args, auth, "PaymentNotFound")
            /\ UNCHANGED payments
       ELSE IF payments[payment_id].status = "Confirmed"
       THEN /\ last' = Call("confirm_payment", args, auth, "PaymentAlreadyConfirmed")
            /\ UNCHANGED payments
       ELSE /\ payments' = map_set(payments, payment_id,
                                   [payments[payment_id] EXCEPT
                                       !.status = "Confirmed",
                                       !.transaction_hash = Some(transaction_hash)])
            /\ last' = Call("confirm_payment", args, auth, "Ok")

\* confirm_payment without the already-confirmed check.
confirm_payment_again(payment_id, transaction_hash, auth) ==
    LET args == [payment_id |-> payment_id, hash |-> transaction_hash] IN
    /\ UNCHANGED <<regVars, tp_initialized, tp_fee_percent, tp_wallet, tp_counter,
                   balances, now>>
    /\ IF payment_id \notin DOMAIN payments
       THEN /\ last' = Call("confirm_payment", args, auth, "PaymentNotFound")
            /\ UNCHANGED payments
       ELSE /\ payments' = map_set(payments, payment_id,
                                   [payments[payment_id] EXCEPT
                                       !.status = "Confirmed",
                                       !.confirmed_at = Some(now),
                                       !.transaction_hash = Some(transaction_hash)])
            /\ last' = Call("confirm_payment", args, auth, "Ok")

confirm_payment(payment_id, transaction_hash, auth) ==
    LET args == [payment_id |-> payment_id, hash |-> transaction_hash] IN
    /\ UNCHANGED <<regVars, tp_initialized, tp_fee_percent, tp_wallet, tp_counter,
                   balances, now>>
    /\ IF payment_id \notin DOMAIN payments
       THEN /\ last' = Call("confirm_payment", args, auth, "PaymentNotFound")
            /\ UNCHANGED payments
       ELSE IF payments[payment_id].status = "Confirmed"
       THEN /\ last' = Call("confirm_payment", args, auth, "PaymentAlreadyConfirmed")
            /\ UNCHANGED payments
       ELSE /\ payments' = map_set(payments, payment_id,
                                   [payments[payment_id] EXCEPT
                                       !.status = "Confirmed",
                                       !.confirmed_at = Some(now),
                                       !.transaction_hash = Some(transaction_hash)])
            /\ last' = Call("confirm_payment", args, auth, "Ok")

ConfirmPayment == \E id \in PaymentIdArgs, h \in HashArgs, auth \in {{}, Users} :
    confirm_payment(id, h, auth)

get_payment(payment_id) ==
    LET args == [payment_id |-> payment_id] IN
    /\ UNCHANGED <<regVars, tpVars, now>>
    /\ IF payment_id \in DOMAIN payments
       THEN last' = Call("get_payment",
                         args @@ [out_pay |-> Some(payments[payment_id])], {}, "Ok")
       ELSE last' = Call("get_payment", args, {}, "PaymentNotFound")

GetPayment == \E id \in PaymentIdArgs : get_payment(id)

Init ==
    /\ initialized = FALSE
    /\ admin = NoAddr
    /\ platform_wallet = NoAddr
    /\ platform_fee = 0
    /\ events = <<>>
    /\ tp_initialized = FALSE
    /\ tp_fee_percent = 0
    /\ tp_wallet = NoAddr
    /\ tp_counter = 0
    /\ payments = <<>>
    /\ balances = [h \in Holders |-> 0]
    /\ now = 0
    /\ last = NoCall

\* The registry with its configuration inputs varied: every admin, wallet and
\* fee argument, one event.
Next ==
    \/ Initialize(Addr, Addr, FeeArgs)
    \/ RegisterEvent({"e1"}, {"u1"}, {"u1"})
    \/ GetEventPaymentInfo({"e1"})
    \/ UpdateEventStatus({"e1"})
    \/ StoreEvent({"e1"}, {"u1"}, {"u1"})
    \/ SetPlatformFee(FeeArgs)
    \/ GetPlatformFee
    \/ AdvanceLedger

Spec == Init /\ [][Next]_vars

\* The registry with its event inputs varied: two event ids, every organizer
\* and payment address, one configuration.
EventNext ==
    \/ Initialize({"u1"}, {"u1"}, {0})
    \/ RegisterEvent(EventIds, Users, Users)
    \/ GetEventPaymentInfo(EventIds)
    \/ UpdateEventStatus(EventIds)
    \/ StoreEvent(EventIds, Users, Users)
    \/ SetPlatformFee({BasisPoints + 1})
    \/ GetPlatformFee
    \/ AdvanceLedger

EventSpec == Init /\ [][EventNext]_vars

\* The ticket payment contract, deployed beside a registry that holds the
\* event e1; u1 holds MaxBalance tokens.
PayInit ==
    /\ initialized = TRUE
    /\ admin = "u1"
    /\ platform_wallet = PlatformAddr
    /\ platform_fee = DefaultFee
    /\ events = [e \in {"e1"} |->
                    [event_id |-> e, organizer_address |-> "u2",
                     payment_address |-> "u2", platform_fee_percent |-> DefaultFee,
                     is_active |-> TRUE, created_at |-> 0]]
    /\ tp_initialized = FALSE
    /\ tp_fee_percent = 0
    /\ tp_wallet = NoAddr
    /\ tp_counter = 0
    /\ payments = <<>>
    /\ balances = [h \in Holders |->
                      IF h = "u1" THEN MaxBalance ELSE 0]
    /\ now = 0
    /\ last = NoCall

PayNext ==
    \/ TpInitialize
    \/ ProcessPayment
    \/ ConfirmPayment
    \/ GetPayment
    \/ AdvanceLedger

PaySpec == PayInit /\ [][PayNext]_vars

(* ------------------------- claims: event registry ----------------------- *)

\* A step that is a call of the entry point op.  The step formulas below read
\* the call from last' and the storage before and after it, never the
\* unprimed last.  A call that leaves storage and last as they were is a
\* stuttering step; the same call is also taken from the state that differs
\* only in last (reached by one of the read-only entry points), where it is a
\* proper step with the same storage, arguments and result.
Called(op) == last'.op = op

\* The records of m2 that m1 does not hold as they are.
Written(m1, m2) ==
    {k \in DOMAIN m2 : IF k \in DOMAIN m1 THEN m2[k] # m1[k] ELSE TRUE}

\* C1: a call made without the authorization of the relevant address never
\* changes stored state: an event record changes only in a call signed by its
\* organizer, the registry's configuration only in a call signed by the
\* admin, a payment record only in a call signed by its buyer.
C1_ChangesAreAuthenticated ==
    [][/\ \A e \in Written(events, events') :
             (IF e \in DOMAIN events THEN events[e].organizer_address
              ELSE events'[e].organizer_address) \in last'.auth
       /\ config' # config =>
             (IF initialized THEN admin ELSE admin') \in last'.auth
       /\ \A id \in Written(payments, payments') :
             payments'[id].buyer \in last'.auth]_vars

\* C2: once the registry is initialized, every initialize call, whatever its
\* arguments, returns AlreadyInitialized and leaves the stored admin,
\* platform wallet and platform fee as they were.
C2_InitializeOnlyOnce ==
    [][(initialized /\ Called("initialize")) =>
          /\ last'.ret = "AlreadyInitialized"
          /\ admin' = admin
          /\ platform_wallet' = platform_wallet
          /\ platform_fee' = platform_fee
          /\ initialized']_vars

\* A second initialize, with a fee argument other than the stored fee, was
\* turned down.
C2_Witness ==
    /\ last.op = "initialize"
    /\ last.ret = "AlreadyInitialized"
    /\ last.fee = BasisPoints
    /\ platform_fee = 0

\* C3: in every state of an initialized registry the stored platform fee, and
\* with it the value get_platform_fee returns, is at most 10000 basis points.
C3_FeeBound ==
    initialized =>
        /\ get_platform_fee <= BasisPoints
        /\ (last.op = "get_platform_fee" => last.out_num <= BasisPoints)

\* A fee above the bound was offered to a registry whose fee is at the bound.
C3_Witness ==
    /\ initialized
    /\ platform_fee = BasisPoints
    /\ last.op = "set_platform_fee"
    /\ last.fee = BasisPoints + 1
    /\ last.ret = "InvalidFeePercent"

\* C7: set_platform_fee(f) succeeds only with the stored admin's
\* authorization; with f > 10000 the stored fee is unchanged and the call,
\* when the admin authorized it, returns InvalidFeePercent; with f <= 10000
\* and the admin's authorization the fee becomes f, which is what
\* get_platform_fee returns from then on.
C7_SetPlatformFee ==
    [][/\ Called("set_platform_fee") =>
            /\ (last'.ret = "Ok" =>
                    /\ initialized
                    /\ admin \in last'.auth
                    /\ last'.fee <= BasisPoints
                    /\ platform_fee' = last'.fee)
            /\ (last'.ret # "Ok" => platform_fee' = platform_fee)
            /\ (admin \in last'.auth =>
                    last'.ret = IF last'.fee > BasisPoints
                                THEN "InvalidFeePercent" ELSE "Ok")
            /\ <<initialized', admin', platform_wallet'>> =
                    <<initialized, admin, platform_wallet>>
       /\ Called("get_platform_fee") => last'.out_num = platform_fee]_vars

\* The admin, signing together with another user, lowered the fee to 0.
C7_Witness ==
    /\ last.op = "set_platform_fee"
    /\ last.ret = "Ok"
    /\ last.fee = 0
    /\ last.auth = Users
    /\ platform_fee = 0

C4_RegisterExistingReturnsExists ==
    [][(Called("register_event") /\ last'.event_id \in DOMAIN events) =>
          /\ last'.ret = "EventAlreadyExists"
          /\ events' = events]_vars

\* C4 amended: register_event on an event_id that has a stored record leaves
\* every stored record unchanged, for any caller and any arguments; it returns
\* NotInitialized on an uninitialized registry, fails authorization when
\* organizer_address did not authorize the call, and returns
\* EventAlreadyExists otherwise.
C4_RegisterExisting ==
    [][(Called("register_event") /\ last'.event_id \in DOMAIN events) =>
          /\ events' = events
          /\ last'.ret = IF ~initialized THEN "NotInitialized"
                         ELSE IF last'.addr \notin last'.auth THEN AuthTrap
                         ELSE "EventAlreadyExists"]_vars

\* Another organizer, at a later time, tried to register an event id that is
\* taken.
C4_Witness ==
    /\ last.op = "register_event"
    /\ last.ret = "EventAlreadyExists"
    /\ last.event_id \in DOMAIN events
    /\ events[last.event_id].organizer_address # last.addr
    /\ events[last.event_id].created_at < now

\* C5: get_event_payment_info(event_id) returns EventNotFound when no record
\* is stored for event_id, EventInactive when the stored record is inactive,
\* and otherwise the payment_address and platform_fee_percent of the stored
\* record; it changes no state.
C5_GetEventPaymentInfo ==
    [][Called("get_event_payment_info") =>
          LET e == last'.event_id IN
          /\ UNCHANGED <<regVars, tpVars, now>>
          /\ (e \notin DOMAIN events =>
                 /\ last'.ret = "EventNotFound"
                 /\ last'.out_addr = NoAddr)
          /\ (e \in DOMAIN events =>
                 IF events[e].is_active
                 THEN /\ last'.ret = "Ok"
                      /\ last'.out_addr = events[e].payment_address
                      /\ last'.out_num = events[e].platform_fee_percent
                 ELSE /\ last'.ret = "EventInactive"
                      /\ last'.out_addr = NoAddr)]_vars

\* The payment info of an active event was returned, with a payment address
\* other than the organizer and a fee other than the global one.
C5_Witness ==
    /\ last.op = "get_event_payment_info"
    /\ last.ret = "Ok"
    /\ last.out_addr # events[last.event_id].organizer_address
    /\ last.out_num # platform_fee
    /\ DOMAIN events = EventIds

\* C6: update_event_status(event_id, b) succeeds only with the authorization
\* of the organizer stored in the event's record; on success it sets is_active
\* to b and leaves the record's other fields and every other record unchanged;
\* for an unknown event_id it returns EventNotFound; a call that does not
\* succeed changes nothing.
C6_UpdateEventStatus ==
    [][Called("update_event_status") =>
          LET e == last'.event_id IN
          /\ config' = config
          /\ (last'.ret = "Ok" =>
                 /\ e \in DOMAIN events
                 /\ events[e].organizer_address \in last'.auth
                 /\ events' = [events EXCEPT ![e].is_active = last'.flag])
          /\ (last'.ret # "Ok" => events' = events)
          /\ (e \notin DOMAIN events => last'.ret = "EventNotFound")
          /\ (e \in DOMAIN events /\ events[e].organizer_address \in last'.auth
                 => last'.ret = "Ok")]_vars

\* An organizer deactivated one of two stored events; the other is active.
C6_Witness ==
    /\ last.op = "update_event_status"
    /\ last.ret = "Ok"
    /\ last.flag = FALSE
    /\ DOMAIN events = EventIds
    /\ \E e \in EventIds \ {last.event_id} : events[e].is_active
    /\ ~events[last.event_id].is_active

(* ------------------------- claims: ticket payment ----------------------- *)

\* C9: process_payment with amount <= 0 changes nothing: no token moves, no
\* payment record is stored, the payment counter stays; the call does not
\* succeed, and when the buyer authorized it, it returns InvalidAmount.
C9_InvalidAmount ==
    [][(Called("process_payment") /\ last'.amount <= 0) =>
          /\ UNCHANGED <<balances, payments, tp_counter, tp_initialized,
                         tp_fee_percent, tp_wallet>>
          /\ last'.ret \in {"InvalidAmount", AuthTrap}
          /\ (last'.addr \in last'.auth => last'.ret = "InvalidAmount")]_vars

\* A buyer who holds tokens offered the amount 0 to the initialized contract.
C9_Witness ==
    /\ last.op = "process_payment"
    /\ last.ret = "InvalidAmount"
    /\ last.amount = 0
    /\ last.event_id = "e1"
    /\ tp_initialized
    /\ balances[last.addr] > 0

\* C10: every stored payment record has platform_fee =
\* floor(amount * platform_fee_percent / 10000), organizer_amount = amount -
\* platform_fee, 0 <= platform_fee <= amount and organizer_amount >= 0; no
\* record is stored under a platform_fee_percent above 10000.
C10_FeeSplit ==
    \A id \in DOMAIN payments :
        LET p == payments[id] IN
        /\ p.platform_fee = (p.amount * tp_fee_percent) \div BasisPoints
        /\ p.organizer_amount = p.amount - p.platform_fee
        /\ 0 <= p.platform_fee
        /\ p.platform_fee <= p.amount
        /\ p.organizer_amount >= 0
        /\ tp_fee_percent <= BasisPoints

\* A step that is a successful process_payment.
Paid == Called("process_payment") /\ last'.ret = "Ok"

\* C11: a successful process_payment(buyer, event_id, amount) for an event of
\* the registry takes exactly amount from the buyer, gives platform_fee to
\* the platform wallet and organizer_amount to the event's organizer.
C11_TransfersToOrganizerAndPlatform ==
    [][(Paid /\ last'.event_id \in DOMAIN events) =>
          LET p == payments'[last'.out_id]
              organizer == events[last'.event_id].organizer_address
          IN
          /\ balances'[last'.addr] = balances[last'.addr] - last'.amount
          /\ balances'[tp_wallet] = balances[tp_wallet] + p.platform_fee
          /\ balances'[organizer] = balances[organizer] + p.organizer_amount]_vars

\* C12: process_payment succeeds only when event_id names an event of the
\* event registry; otherwise it returns an error, moves no token and stores
\* no record.
C12_EventMustExist ==
    [][Called("process_payment") =>
          /\ (last'.ret = "Ok" => last'.event_id \in DOMAIN events)
          /\ (last'.event_id \notin DOMAIN events =>
                 /\ last'.ret # "Ok"
                 /\ UNCHANGED <<balances, payments>>)]_vars

\* C13: every successful process_payment returns a payment id no earlier
\* payment has, so it overwrites no stored record, and the number of stored
\* payments grows by one with every successful call, being the number of
\* successful calls (the payment counter).
C13_PaymentIdsUnique ==
    [][Paid =>
          /\ last'.out_id \notin DOMAIN payments
          /\ Cardinality(DOMAIN payments') = Cardinality(DOMAIN payments) + 1
          /\ Cardinality(DOMAIN payments') = tp_counter']_vars

\* C14: confirm_payment(payment_id, hash) on a stored payment whose status is
\* Pending succeeds, sets status to Confirmed, confirmed_at to the current
\* ledger timestamp and transaction_hash to hash, and leaves the record's
\* other fields, every other payment record, the counter, the configuration
\* and the balances unchanged.
C14_ConfirmPending ==
    [][(/\ Called("confirm_payment")
        /\ last'.payment_id \in DOMAIN payments
        /\ payments[last'.payment_id].status = "Pending") =>
          LET id == last'.payment_id
              old == payments[id]
              new == payments'[id]
          IN
          /\ last'.ret = "Ok"
          /\ DOMAIN payments' = DOMAIN payments
          /\ new.status = "Confirmed"
          /\ new.confirmed_at = Some(now)
          /\ new.transaction_hash = Some(last'.hash)
          /\ <<new.payment_id, new.event_id, new.buyer, new.amount,
               new.platform_fee, new.organizer_amount, new.created_at>> =
             <<old.payment_id, old.event_id, old.buyer, old.amount,
               old.platform_fee, old.organizer_amount, old.created_at>>
          /\ \A other \in DOMAIN payments \ {id} : payments'[other] = payments[other]
          /\ UNCHANGED <<tp_counter, tp_initialized, tp_fee_percent, tp_wallet,
                         balances>>]_vars

\* A payment made at time 0 was confirmed at a later time.
C14_Witness ==
    /\ last.op = "confirm_payment"
    /\ last.ret = "Ok"
    /\ last.payment_id \in DOMAIN payments
    /\ payments[last.payment_id].status = "Confirmed"
    /\ payments[last.payment_id].confirmed_at = Some(now)
    /\ payments[last.payment_id].created_at < now
    /\ payments[last.payment_id].transaction_hash = Some("h2")

\* C15: confirm_payment on a payment whose status is Confirmed returns
\* PaymentAlreadyConfirmed and leaves the record, with the confirmed_at and
\* transaction_hash of the first confirmation, unchanged; confirm_payment on a
\* payment_id with no stored record returns PaymentNotFound; neither changes
\* anything.
C15_ConfirmRejected ==
    [][Called("confirm_payment") =>
          LET id == last'.payment_id IN
          /\ (id \notin DOMAIN payments =>
                 /\ last'.ret = "PaymentNotFound"
                 /\ UNCHANGED <<tpVars, regVars, now>>)
          /\ ((id \in DOMAIN payments /\ payments[id].status = "Confirmed") =>
                 /\ last'.ret = "PaymentAlreadyConfirmed"
                 /\ payments'[id] = payments[id]
                 /\ UNCHANGED <<tpVars, regVars, now>>)]_vars

\* A confirmed payment was offered another hash at a later time and kept the
\* hash and the time of its first confirmation.
C15_Witness ==
    /\ last.op = "confirm_payment"
    /\ last.ret = "PaymentAlreadyConfirmed"
    /\ payments[last.payment_id].transaction_hash # Some(last.hash)
    /\ payments[last.payment_id].confirmed_at # Some(now)
====
